---- MODULE Spec2Model ----
(***************************************************************************)
(* Model of the CodeSAGE dashboard front end.                              *)
(*                                                                         *)
(*   - analyzeAll (services/api.js): reshaping of the POST /analyze        *)
(*     response into {issues, summary, raw};                               *)
(*   - App (App.jsx): the React state (tab, code, language, results,       *)
(*     history, loading) and its handlers (the sidebar's language picker,  *)
(*     the editor, the file upload, the tab bar, onReview, saveHistory,    *)
(*     loadHistory);                                                       *)
(*   - the figures that IssuesPanel and InsightsPanel derive from the      *)
(*     summary;                                                            *)
(*   - analyzeAll as another iteration of services/api.js has it           *)
(*     (src/unnamed/part_001);                                             *)
(*   - IssuesPanel (components/IssuesPanel.jsx): isLowValue and the lists  *)
(*     keptIssues and minorIssues.                                         *)
(*                                                                         *)
(* JavaScript values.  A value that may be undefined/null is modelled as   *)
(* a tuple: <<>> is undefined (or null: the code tells them apart          *)
(* nowhere), <<v>> is the value v.  Reading a property of undefined        *)
(* throws a TypeError; optional chaining (?.) yields undefined instead.    *)
(* A message is a tuple of text parts, so that the template literal of    *)
(* the quality issue is the tuple of its parts.                            *)
(***************************************************************************)
EXTENDS Integers, Sequences, FiniteSets

VARIABLES
    \* React state of App (App.jsx 46..51)
    tab, code, language, results, history, loading,
    \* activations of onReview that have not finished, oldest first
    runs,
    \* GET /history/latest requests awaiting their response
    loadsPending,
    \* while GET /history/latest requests await their response: what became
    \* of the one issued last
    latestLoad,
    \* what the handler that ran last did: the number of alerts it raised,
    \* what it wrote with console.error and with console.warn, the number
    \* of HTTP requests it issued
    alerts, errorsLogged, warnsLogged, sent,
    \* one earlier call of analyzeAll: the response it got, its outcome, and
    \* the outcome of a later call that got the same response
    remembered,
    \* analyzeAll alone: the response it is given and its outcome
    response, ret,
    \* the outcome of the other version of analyzeAll on the same response
    retV5,
    \* IssuesPanel alone: the issues it is given and the lists it makes of them
    panel

\* what the handlers show and send
shown == <<alerts, errorsLogged, warnsLogged, sent>>

uiVars == <<tab, code, language, results, history, loading, runs, loadsPending,
            latestLoad, shown, remembered>>

vars == <<uiVars, response, ret, retV5, panel>>

(***************************************************************************)
(* Bounds of the model                                                     *)
(***************************************************************************)
\* total number of issue items in a response with freely chosen fields
MaxItems == 2
\* length of the longest list of identical items in a response
MaxBulk == 21
\* number of activations of onReview that may be unfinished at one time
MaxRuns == 2
\* number of history loads awaiting their response at one time
MaxLoads == 2
\* number of issues given to IssuesPanel
MaxShown == 2

(***************************************************************************)
(* JavaScript values                                                       *)
(***************************************************************************)
Undefined == <<>>

Val(v) == <<v>>

\* x || d for a string x
OrStr(x, d) == IF x = Undefined \/ x = Val("") THEN d ELSE x

\* x || d for a number x
OrNum(x, d) == IF x = Undefined \/ x = Val(0) THEN d ELSE x

\* `${x}` for a string x
Interpolate(x) == IF x = Undefined THEN "undefined" ELSE x[1]

\* the outcome of a call: a thrown exception or a returned value
Threw == [threw |-> TRUE, val |-> Undefined]

\* an expression that evaluated to the JavaScript value x
Ok(x) == [threw |-> FALSE, val |-> x]

\* a call that returned the object v
Returned(v) == Ok(Val(v))

\* o.f, for the outcome o of evaluating an object expression and the
\* property name f: reading a property of undefined throws
Dot(o, f) ==
    IF o.threw \/ o.val = Undefined THEN Threw ELSE Ok(o.val[1][f])

\* o?.f: undefined when o is undefined
OptDot(o, f) ==
    IF o.threw THEN Threw
    ELSE IF o.val = Undefined THEN Ok(Undefined) ELSE Ok(o.val[1][f])

(***************************************************************************)
(* The response to POST /analyze: res.data                                 *)
(***************************************************************************)
\* res.data.results || {} when the response has no results (api.js 12)
EmptyData ==
    [syntax |-> Undefined, style |-> Undefined, security |-> Undefined,
     quality |-> Undefined, rule |-> Undefined]

LineIn == {Undefined, Val(7)}

SeverityIn == {Undefined, Val(""), Val("critical"), Val("low"), Val("style")}

SuggestionIn == {Undefined, Val("rename it")}

SyntaxErrs == {[line |-> l, message |-> Val(<<"E">>)] : l \in LineIn}

LocalItems ==
    {[severity |-> s, line |-> l, message |-> Val(<<"L">>)] :
        s \in SeverityIn, l \in LineIn}

AiStyleItems ==
    {[line |-> l, message |-> Val(<<"A">>), suggestion |-> g] :
        l \in LineIn, g \in SuggestionIn}

BanditItems ==
    {[line_number |-> l, issue_text |-> Val(<<"B">>), issue_cwe |-> c] :
        l \in LineIn, c \in {Undefined, Val("CWE-78")}}

SecAiItems ==
    {[severity |-> s, line |-> l, message |-> Val(<<"S">>), suggestion |-> g] :
        s \in SeverityIn, l \in LineIn, g \in SuggestionIn}

RuleItems ==
    {[severity |-> s, line |-> l, message |-> Val(<<"R">>), suggestion |-> g] :
        s \in SeverityIn, l \in LineIn, g \in SuggestionIn}

Analyses ==
    {[time_complexity |-> t, space_complexity |-> Val("O(1)")] :
        t \in {Undefined, Val("O(n)")}}

\* a list of records, as the JSON gives it
ListOf(items) == Val([i \in 1..Len(items) |-> Val(items[i])])

\* n copies of one item
Rep(item, n) == [i \in 1..n |-> item]

\* a response in which every service answered, with these lists
MkData(se, lo, ai, ba, sa, qa, ru) ==
    [syntax   |-> Val([errors |-> ListOf(se)]),
     style    |-> Val([local_issues |-> ListOf(lo),
                       ai_review |-> Val([issues |-> ListOf(ai)])]),
     security |-> Val([security_issues |->
                           Val([bandit |-> Val([results |-> ListOf(ba)])]),
                       ai |-> Val([issues |-> ListOf(sa)])]),
     quality  |-> Val([analysis |-> qa]),
     rule     |-> Val([issues |-> ListOf(ru)])]

MkResponse(data) == Val([results |-> Val(data)])

\* one item of each list, with every optional field left out
SyntaxErr0 == [line |-> Undefined, message |-> Val(<<"E">>)]

LocalItem0 == [severity |-> Undefined, line |-> Undefined, message |-> Val(<<"L">>)]

AiStyleItem0 ==
    [line |-> Undefined, message |-> Val(<<"A">>), suggestion |-> Undefined]

BanditItem0 ==
    [line_number |-> Undefined, issue_text |-> Val(<<"B">>), issue_cwe |-> Undefined]

SecAiItem0 ==
    [severity |-> Undefined, line |-> Undefined, message |-> Val(<<"S">>),
     suggestion |-> Undefined]

RuleItem0 ==
    [severity |-> Undefined, line |-> Undefined, message |-> Val(<<"R">>),
     suggestion |-> Undefined]

Analysis0 == [time_complexity |-> Val("O(n)"), space_complexity |-> Val("O(1)")]

\* a list that is absent, empty, or holds one record
ListShapes(item) == {Undefined, Val(<<>>), ListOf(<<item>>)}

SyntaxShapes ==
    {Undefined} \cup {Val([errors |-> l]) : l \in ListShapes(SyntaxErr0)}

AiShapes(item) ==
    {Undefined} \cup {Val([issues |-> l]) : l \in ListShapes(item)}

StyleShapes ==
    {Undefined} \cup
    {Val([local_issues |-> l, ai_review |-> a]) :
        l \in ListShapes(LocalItem0), a \in AiShapes(AiStyleItem0)}

BanditShapes ==
    {Undefined, Val([bandit |-> Undefined])} \cup
    {Val([bandit |-> Val([results |-> l])]) : l \in ListShapes(BanditItem0)}

SecurityShapes ==
    {Undefined} \cup
    {Val([security_issues |-> b, ai |-> a]) :
        b \in BanditShapes, a \in AiShapes(SecAiItem0)}

QualityShapes ==
    {Undefined, Val([analysis |-> Undefined]), Val([analysis |-> Val(Analysis0)])}

RuleShapes ==
    {Undefined} \cup {Val([issues |-> l]) : l \in ListShapes(RuleItem0)}

\* the lengths of the six lists, at most MaxItems items in all
LenVectors ==
    {n \in [1..6 -> 0..MaxItems] : n[1] + n[2] + n[3] + n[4] + n[5] + n[6] <= MaxItems}

\* long lists: n items from one service
BulkData(n) ==
    {MkData(Rep(SyntaxErr0, n), <<>>, <<>>, <<>>, <<>>, Undefined, <<>>),
     MkData(<<>>, Rep(LocalItem0, n), <<>>, <<>>, <<>>, Undefined, <<>>),
     MkData(<<>>, <<>>, Rep(AiStyleItem0, n), <<>>, <<>>, Undefined, <<>>),
     MkData(<<>>, <<>>, <<>>, Rep(BanditItem0, n), <<>>, Undefined, <<>>),
     MkData(<<>>, <<>>, <<>>, <<>>, Rep(SecAiItem0, n), Undefined, <<>>),
     MkData(<<>>, <<>>, <<>>, <<>>, <<>>, Undefined, Rep(RuleItem0, n))}

\* responses the backend should not give: no body, or a null in a list
NullList == Val(<<Undefined>>)

MalformedResponses ==
    {Undefined,
     MkResponse([EmptyData EXCEPT !.syntax = Val([errors |-> NullList])]),
     MkResponse([EmptyData EXCEPT !.style =
         Val([local_issues |-> NullList, ai_review |-> Undefined])]),
     MkResponse([EmptyData EXCEPT !.style =
         Val([local_issues |-> Undefined, ai_review |-> Val([issues |-> NullList])])]),
     MkResponse([EmptyData EXCEPT !.security =
         Val([security_issues |-> Val([bandit |-> Val([results |-> NullList])]),
              ai |-> Undefined])]),
     MkResponse([EmptyData EXCEPT !.security =
         Val([security_issues |-> Undefined, ai |-> Val([issues |-> NullList])])]),
     MkResponse([EmptyData EXCEPT !.rule = Val([issues |-> NullList])])}

\* every record of a list is a record (no null among them)
WellFormedList(l) == l = Undefined \/ \A i \in 1..Len(l[1]) : l[1][i] # Undefined

\* results is absent, or each sub-result is absent or has well-formed lists
WellFormed(r) ==
    /\ r # Undefined
    /\ LET d == IF r[1].results = Undefined THEN EmptyData ELSE r[1].results[1]
       IN /\ d.syntax # Undefined => WellFormedList(d.syntax[1].errors)
          /\ d.style # Undefined =>
                /\ WellFormedList(d.style[1].local_issues)
                /\ d.style[1].ai_review # Undefined =>
                      WellFormedList(d.style[1].ai_review[1].issues)
          /\ d.security # Undefined =>
                /\ (/\ d.security[1].security_issues # Undefined
                    /\ d.security[1].security_issues[1].bandit # Undefined)
                      => WellFormedList(d.security[1].security_issues[1].bandit[1].results)
                /\ d.security[1].ai # Undefined =>
                      WellFormedList(d.security[1].ai[1].issues)
          /\ d.rule # Undefined => WellFormedList(d.rule[1].issues)

(***************************************************************************)
(* analyzeAll (services/api.js)                                            *)
(***************************************************************************)
\* list.forEach(x => ... x.field ...): the records the callback is run on;
\* reading a field of a null item throws
ForEach(list) ==
    IF \E i \in 1..Len(list) : list[i] = Undefined THEN Threw
    ELSE Ok([i \in 1..Len(list) |-> list[i][1]])

\* if (l?.length) { l.forEach(...) }, where evaluating l gave the outcome l:
\* the records the callback is run on
Iterated(l) ==
    IF l.threw THEN Threw
    ELSE IF l.val # Undefined /\ Len(l.val[1]) > 0 THEN ForEach(l.val[1])
    ELSE Ok(<<>>)

\* api.js 14: const issues = []; were the list kept between the calls, it
\* would still hold the issues of the result shown
StaleIssues == IF results = Undefined THEN <<>> ELSE results[1].issues

NewIssues == <<>>

\* api.js 25: data.syntax?.errors
SyntaxErrorsUnchained(data) == Dot(Ok(data.syntax), "errors")

SyntaxErrors(data) == OptDot(Ok(data.syntax), "errors")

SyntaxIssue(err) ==
    [severity |-> Val("high"), type |-> Val("syntax"),
     line |-> OrNum(err.line, Val(0)), message |-> err.message,
     suggestion |-> Val("Fix syntax error")]

\* api.js 25..35
SyntaxBlock(data) ==
    LET items == Iterated(SyntaxErrors(data))
    IN  IF items.threw THEN Threw
        ELSE Ok([i \in 1..Len(items.val) |-> SyntaxIssue(items.val[i])])

\* api.js 38: data.style?.local_issues
LocalIssues(data) == OptDot(Ok(data.style), "local_issues")

LocalStyleIssue(i) ==
    [severity |-> OrStr(i.severity, Val("low")), type |-> Val("style"),
     line |-> OrNum(i.line, Val(0)), message |-> i.message,
     suggestion |-> Val("Follow style guidelines")]

\* api.js 38..48
LocalStyleBlock(data) ==
    LET items == Iterated(LocalIssues(data))
    IN  IF items.threw THEN Threw
        ELSE Ok([i \in 1..Len(items.val) |-> LocalStyleIssue(items.val[i])])

\* api.js 51: data.style?.ai_review?.issues
AiReviewIssues(data) ==
    OptDot(OptDot(Ok(data.style), "ai_review"), "issues")

AiStyleIssue(i) ==
    [severity |-> Val("medium"), type |-> Val("style"),
     line |-> OrNum(i.line, Val(0)), message |-> i.message,
     suggestion |-> OrStr(i.suggestion, Val("Improve code readability"))]

\* api.js 51..61
AiStyleBlock(data) ==
    LET items == Iterated(AiReviewIssues(data))
    IN  IF items.threw THEN Threw
        ELSE Ok([i \in 1..Len(items.val) |-> AiStyleIssue(items.val[i])])

\* api.js 64: data.security?.security_issues?.bandit?.results
BanditResults(data) ==
    OptDot(OptDot(OptDot(Ok(data.security), "security_issues"),
                  "bandit"),
           "results")

BanditIssue(sec) ==
    [severity |-> Val("high"), type |-> Val("security"),
     line |-> OrNum(sec.line_number, Val(0)), message |-> sec.issue_text,
     suggestion |-> OrStr(sec.issue_cwe, Val("Fix vulnerability"))]

\* api.js 64..74
BanditBlock(data) ==
    LET items == Iterated(BanditResults(data))
    IN  IF items.threw THEN Threw
        ELSE Ok([i \in 1..Len(items.val) |-> BanditIssue(items.val[i])])

\* api.js 77: data.security?.ai?.issues
SecurityAiIssues(data) ==
    OptDot(OptDot(Ok(data.security), "ai"), "issues")

SecurityAiIssue(sec) ==
    [severity |-> OrStr(sec.severity, Val("medium")), type |-> Val("security"),
     line |-> OrNum(sec.line, Val(0)), message |-> sec.message,
     suggestion |-> OrStr(sec.suggestion, Val("Fix security issue"))]

\* api.js 77..87
SecurityAiBlock(data) ==
    LET items == Iterated(SecurityAiIssues(data))
    IN  IF items.threw THEN Threw
        ELSE Ok([i \in 1..Len(items.val) |-> SecurityAiIssue(items.val[i])])

\* api.js 90: data.quality?.analysis
QualityAnalysis(data) == OptDot(Ok(data.quality), "analysis")

QualityIssue(a) ==
    [severity |-> Val("medium"), type |-> Val("quality"), line |-> Val(0),
     message |-> Val(<<"Time: ", Interpolate(a.time_complexity),
                       ", Space: ", Interpolate(a.space_complexity)>>),
     suggestion |-> Val("Optimize algorithm")]

\* api.js 90..99: at most one issue, when the analysis is there
QualityBlock(data) ==
    LET a == QualityAnalysis(data)
    IN  IF a.threw THEN Threw
        ELSE IF a.val # Undefined THEN Ok(<<QualityIssue(a.val[1])>>)
        ELSE Ok(<<>>)

\* api.js 102: data.rule?.issues
RuleIssues(data) == OptDot(Ok(data.rule), "issues")

RuleIssueNoDefaults(r) ==
    [severity |-> r.severity, type |-> Val("rule"), line |-> r.line,
     message |-> r.message,
     suggestion |-> OrStr(r.suggestion, Val("Fix rule violation"))]

RuleIssue(r) ==
    [severity |-> OrStr(r.severity, Val("low")), type |-> Val("rule"),
     line |-> OrNum(r.line, Val(0)), message |-> r.message,
     suggestion |-> OrStr(r.suggestion, Val("Fix rule violation"))]

\* api.js 102..112
RuleBlock(data) ==
    LET items == Iterated(RuleIssues(data))
    IN  IF items.threw THEN Threw
        ELSE Ok([i \in 1..Len(items.val) |-> RuleIssue(items.val[i])])

\* issues.filter(i => i.severity === sev).length
SeverityCount(issues, sev) ==
    Cardinality({i \in 1..Len(issues) : issues[i].severity = Val(sev)})

\* issues.filter(i => i.type === "security").length
TypeCount(issues, type) ==
    Cardinality({i \in 1..Len(issues) : issues[i].type = Val(type)})

\* low as another version of this file counts it: "style" severities too
LowCountWithStyle(issues) ==
    SeverityCount(issues, "low") + SeverityCount(issues, "style")

LowCount(issues) == SeverityCount(issues, "low")

\* a score kept from falling below 0
AtLeastZero(n) == IF n < 0 THEN 0 ELSE n

\* the summary with its scores clamped at 0
SummaryClamped(issues) ==
    [totalIssues   |-> Len(issues),
     critical      |-> SeverityCount(issues, "critical"),
     high          |-> SeverityCount(issues, "high"),
     medium        |-> SeverityCount(issues, "medium"),
     low           |-> LowCount(issues),
     securityScore |-> AtLeastZero(100 - TypeCount(issues, "security") * 10),
     qualityScore  |-> AtLeastZero(100 - Len(issues) * 5)]

\* api.js 115..123
Summary(issues) ==
    [totalIssues   |-> Len(issues),
     critical      |-> SeverityCount(issues, "critical"),
     high          |-> SeverityCount(issues, "high"),
     medium        |-> SeverityCount(issues, "medium"),
     low           |-> LowCount(issues),
     securityScore |-> 100 - TypeCount(issues, "security") * 10,
     qualityScore  |-> 100 - Len(issues) * 5]

\* api.js 15..22
Raw(data) ==
    [syntax |-> data.syntax, style |-> data.style, security |-> data.security,
     quality |-> data.quality, rule |-> data.rule]

\* the blocks with the rule engine's moved to the front
BlocksRuleFirst(data) ==
    <<RuleBlock(data), SyntaxBlock(data), LocalStyleBlock(data),
      AiStyleBlock(data), BanditBlock(data), SecurityAiBlock(data),
      QualityBlock(data)>>

\* the blocks of api.js 24..112, in the order they run
Blocks(data) ==
    <<SyntaxBlock(data), LocalStyleBlock(data), AiStyleBlock(data),
      BanditBlock(data), SecurityAiBlock(data), QualityBlock(data),
      RuleBlock(data)>>

\* what analyzeAll makes of the response body r (res.data) once it arrived
analyzeAll(r) ==
    LET d == Dot(Ok(r), "results")
    IN  IF d.threw THEN Threw
        ELSE
          LET data == IF d.val = Undefined THEN EmptyData ELSE d.val[1]
              b == Blocks(data)
          IN  IF \E k \in 1..Len(b) : b[k].threw THEN Threw
              ELSE
                LET issues == NewIssues \o b[1].val \o b[2].val \o b[3].val \o
                              b[4].val \o b[5].val \o b[6].val \o b[7].val
                IN  Returned([issues |-> issues, summary |-> Summary(issues),
                              raw |-> Raw(data)])

(***************************************************************************)
(* analyzeAll, the version that takes the quality score from the style     *)
(* service (src/unnamed/part_001)                                          *)
(***************************************************************************)
\* obj.f for an object that may have no such property
Prop(obj, f) == IF f \in DOMAIN obj THEN obj[f] ELSE Undefined

\* part_001 29..39
SyntaxIssueV5(err) ==
    [severity |-> Val("high"), type |-> Val("syntax"), line |-> err.line,
     message |-> err.message, suggestion |-> Val("Fix syntax error")]

SyntaxBlockV5(data) ==
    LET items == Iterated(OptDot(Ok(data.syntax), "errors"))
    IN  IF items.threw THEN Threw
        ELSE Ok([i \in 1..Len(items.val) |-> SyntaxIssueV5(items.val[i])])

\* part_001 44..54
LocalStyleIssueV5(i) ==
    [severity |-> OrStr(i.severity, Val("medium")), type |-> Val("style"),
     line |-> i.line, message |-> i.message,
     suggestion |-> Val("Follow code style")]

LocalStyleBlockV5(data) ==
    LET items == Iterated(OptDot(Ok(data.style), "local_issues"))
    IN  IF items.threw THEN Threw
        ELSE Ok([i \in 1..Len(items.val) |-> LocalStyleIssueV5(items.val[i])])

\* part_001 59..69
AiStyleIssueV5(i) ==
    [severity |-> Val("medium"), type |-> Val("style"), line |-> i.line,
     message |-> i.message,
     suggestion |-> OrStr(i.suggestion, Val("Improve readability"))]

AiStyleBlockV5(data) ==
    LET items == Iterated(OptDot(OptDot(Ok(data.style), "ai_review"), "issues"))
    IN  IF items.threw THEN Threw
        ELSE Ok([i \in 1..Len(items.val) |-> AiStyleIssueV5(items.val[i])])

\* part_001 74..84
BanditIssueV5(sec) ==
    [severity |-> Val("high"), type |-> Val("security"), line |-> sec.line_number,
     message |-> sec.issue_text,
     suggestion |-> OrStr(sec.issue_cwe, Val("Fix security flaw"))]

BanditBlockV5(data) ==
    LET items == Iterated(OptDot(OptDot(OptDot(Ok(data.security), "security_issues"),
                                        "bandit"),
                                 "results"))
    IN  IF items.threw THEN Threw
        ELSE Ok([i \in 1..Len(items.val) |-> BanditIssueV5(items.val[i])])

\* a security issue of the AI filed under the type "ai"
SecurityAiIssueAsAi(sec) ==
    [severity |-> OrStr(sec.severity, Val("medium")), type |-> Val("ai"),
     line |-> sec.line, message |-> sec.message,
     suggestion |-> OrStr(sec.suggestion, Val("Fix security issue"))]

\* part_001 89..99
SecurityAiIssueV5(sec) ==
    [severity |-> OrStr(sec.severity, Val("medium")), type |-> Val("security"),
     line |-> sec.line, message |-> sec.message,
     suggestion |-> OrStr(sec.suggestion, Val("Fix security issue"))]

SecurityAiBlockV5(data) ==
    LET items == Iterated(OptDot(OptDot(Ok(data.security), "ai"), "issues"))
    IN  IF items.threw THEN Threw
        ELSE Ok([i \in 1..Len(items.val) |-> SecurityAiIssueV5(items.val[i])])

\* part_001 104..113
QualityIssueV5(a) ==
    [severity |-> Val("medium"), type |-> Val("quality"), line |-> Val(0),
     message |-> Val(<<"Time: ", Interpolate(a.time_complexity),
                       ", Space: ", Interpolate(a.space_complexity)>>),
     suggestion |-> Val("Optimize algorithm")]

QualityBlockV5(data) ==
    LET a == OptDot(Ok(data.quality), "analysis")
    IN  IF a.threw THEN Threw
        ELSE IF a.val # Undefined THEN Ok(<<QualityIssueV5(a.val[1])>>)
        ELSE Ok(<<>>)

\* part_001 118..128
RuleIssueV5(r) ==
    [severity |-> r.severity, type |-> Val("rule"), line |-> r.line,
     message |-> r.message,
     suggestion |-> OrStr(r.suggestion, Val("Fix rule violation"))]

RuleBlockV5(data) ==
    LET items == Iterated(OptDot(Ok(data.rule), "issues"))
    IN  IF items.threw THEN Threw
        ELSE Ok([i \in 1..Len(items.val) |-> RuleIssueV5(items.val[i])])

\* part_001 133: data.style?.summary || {}
StyleSummaryV5(data) ==
    LET given == IF data.style = Undefined THEN Undefined
                 ELSE Prop(data.style[1], "summary")
    IN  IF given = Undefined
        THEN [qualityScore |-> Undefined, qualityScoreLocal |-> Undefined,
              qualityScoreAI |-> Undefined]
        ELSE given[1]

\* part_001 135..148
SummaryV5(issues, data) ==
    [totalIssues       |-> Len(issues),
     critical          |-> SeverityCount(issues, "critical"),
     high              |-> SeverityCount(issues, "high"),
     medium            |-> SeverityCount(issues, "medium"),
     low               |-> Cardinality({i \in 1..Len(issues) :
                               \/ issues[i].severity = Val("low")
                               \/ issues[i].severity = Val("style")}),
     qualityScore      |-> OrNum(StyleSummaryV5(data).qualityScore, Val(0))[1],
     qualityScoreLocal |-> OrNum(StyleSummaryV5(data).qualityScoreLocal, Val(0))[1],
     qualityScoreAI    |-> OrNum(StyleSummaryV5(data).qualityScoreAI, Val(0))[1],
     securityScore     |-> 100 - TypeCount(issues, "security") * 10]

\* the blocks of part_001 26..128, in the order they run
BlocksV5(data) ==
    <<SyntaxBlockV5(data), LocalStyleBlockV5(data), AiStyleBlockV5(data),
      BanditBlockV5(data), SecurityAiBlockV5(data), QualityBlockV5(data),
      RuleBlockV5(data)>>

\* part_001 9..151: what this version makes of the response body r
analyzeAllV5(r) ==
    LET d == Dot(Ok(r), "results")
    IN  IF d.threw THEN Threw
        ELSE
          LET data == IF d.val = Undefined THEN EmptyData ELSE d.val[1]
              b == BlocksV5(data)
          IN  IF \E k \in 1..Len(b) : b[k].threw THEN Threw
              ELSE
                LET issues == b[1].val \o b[2].val \o b[3].val \o b[4].val \o
                              b[5].val \o b[6].val \o b[7].val
                IN  Returned([issues |-> issues, summary |-> SummaryV5(issues, data),
                              raw |-> Raw(data)])

(***************************************************************************)
(* App (App.jsx)                                                           *)
(***************************************************************************)
\* App.jsx 106: the longest code snippet saved with a run
SliceLimit == 5000

\* A text is the sequence of its runs of equal characters: n times ch.
\* App.jsx 47: the editor's first content (its first characters)
InitialCode == <<[ch |-> "/", n |-> 2], [ch |-> "p", n |-> 1]>>

\* a text one character longer than the longest snippet saved
LongCode == <<[ch |-> "a", n |-> SliceLimit], [ch |-> "b", n |-> 1]>>

\* what the user types or uploads
Codes == {InitialCode, LongCode}

\* Sidebar: the ids of LANGS
Langs == {"python", "javascript", "java", "cpp"}

\* uploaded file names, as filename.split(".") gives them
Filenames == {<<"a", "py">>, <<"lib", "c">>, <<"Makefile">>}

\* App.jsx 73..81: langMap[ext]
LangMap(ext) ==
    CASE ext = "js"   -> Val("javascript")
      [] ext = "ts"   -> Val("typescript")
      [] ext = "py"   -> Val("python")
      [] ext = "java" -> Val("java")
      [] ext = "cpp"  -> Val("cpp")
      [] ext = "c"    -> Val("cpp")
      [] ext = "go"   -> Val("go")
      [] OTHER        -> Undefined

\* App.jsx 72..83: the language set for an uploaded file
DetectedLanguage(filename) ==
    LET ext == filename[Len(filename)]
    IN  OrStr(LangMap(ext), Val("javascript"))[1]

\* text.slice(0, k): the first k characters of the text, or all of it
RECURSIVE Take(_, _)
Take(text, k) ==
    IF k = 0 \/ text = <<>> THEN <<>>
    ELSE IF Head(text).n <= k
         THEN <<Head(text)>> \o Take(Tail(text), k - Head(text).n)
         ELSE <<[ch |-> Head(text).ch, n |-> k]>>

\* code.slice(0, 5000)
Slice(text) == Take(text, SliceLimit)

\* the bodies GET /history/latest answers with
HistoryBodies ==
    {Undefined, Val([history |-> Undefined]), Val([history |-> Val(<<>>)]),
     Val([history |-> Val(<<"run1">>)])}

\* App.jsx 57: res.data?.history || []
HistoryOf(body) ==
    LET h == OptDot(Ok(body), "history").val
    IN  IF h = Undefined THEN <<>> ELSE h[1]

\* the bodies POST /analyze answers with in the sessions explored
SampleResponses ==
    {Undefined,
     Val([results |-> Undefined]),
     MkResponse(MkData(<<>>, <<>>, <<>>, <<BanditItem0>>, <<>>, Val(Analysis0), <<>>))}

\* ret before analyzeAll was called
NotCalled == Ok(Undefined)

\* IssuesPanel before it is rendered with results
NotShown == [issues |-> <<>>, out |-> Undefined]

\* the GET /history/latest issued last: none awaits its response, the one
\* issued last does, it failed, or it was answered with this history list
NoLoad == [state |-> "none", history |-> <<>>]

Pending == [state |-> "pending", history |-> <<>>]

Failed == [state |-> "failed", history |-> <<>>]

Answered(h) == [state |-> "answered", history |-> h]

UIInit ==
    /\ tab = 0
    /\ code = InitialCode
    /\ language = "python"
    /\ results = Undefined
    /\ history = <<>>
    /\ loading = FALSE
    /\ runs = <<>>
    /\ loadsPending = 0
    /\ latestLoad = NoLoad
    /\ alerts = 0
    /\ errorsLogged = <<>>
    /\ warnsLogged = <<>>
    /\ sent = 0
    /\ remembered = Undefined

Init ==
    /\ UIInit
    /\ response = Undefined
    /\ ret = NotCalled
    /\ retV5 = NotCalled
    /\ panel = NotShown

\* a handler that shows nothing and sends nothing
Quiet ==
    /\ alerts' = 0
    /\ errorsLogged' = <<>>
    /\ warnsLogged' = <<>>
    /\ sent' = 0

\* Sidebar: onClick={() => onPickLang(l.id)}, with onPickLang = setLanguage
PickLang(l) ==
    /\ language' = l
    /\ Quiet
    /\ UNCHANGED <<tab, code, results, history, loading, runs, loadsPending,
                   latestLoad, remembered, response, ret, retV5, panel>>

\* EditorPane (shown on tab 0 only): onChange = setCode
EditCode(text) ==
    /\ tab = 0
    /\ code' = text
    /\ Quiet
    /\ UNCHANGED <<tab, language, results, history, loading, runs, loadsPending,
                   latestLoad, remembered, response, ret, retV5, panel>>

\* App.jsx 69..84
onUpload(text, filename) ==
    /\ code' = text
    /\ language' = DetectedLanguage(filename)
    /\ Quiet
    /\ UNCHANGED <<tab, results, history, loading, runs, loadsPending,
                   latestLoad, remembered, response, ret, retV5, panel>>

\* the effect, were it to load on the Results tab too
LoadsOnResults(v) == v >= 1

\* App.jsx 65: if (tab === 2) loadHistory()
LoadsHistory(v) == v = 2

\* Tabs (App.jsx 184): onChange fires for a tab other than the current one;
\* App.jsx 54..56 and 64..66: entering tab 2 sends GET /history/latest
SetTab(v) ==
    /\ v # tab
    /\ tab' = v
    /\ IF LoadsHistory(v)
       THEN /\ loadsPending < MaxLoads
            /\ loadsPending' = loadsPending + 1
            /\ latestLoad' = Pending
            /\ sent' = 1
       ELSE /\ UNCHANGED <<loadsPending, latestLoad>>
            /\ sent' = 0
    /\ alerts' = 0
    /\ errorsLogged' = <<>>
    /\ warnsLogged' = <<>>
    /\ UNCHANGED <<code, language, results, history, loading, runs,
                   remembered, response, ret, retV5, panel>>

\* the k-th of the pending requests, oldest first, is the one issued last
IsLatest(k) == k = loadsPending /\ latestLoad = Pending

\* latestLoad once the k-th pending request has ended as `ended`
LatestAfter(k, ended) ==
    IF loadsPending = 1 THEN NoLoad
    ELSE IF IsLatest(k) THEN ended ELSE latestLoad

\* App.jsx 57: the response to the k-th pending GET /history/latest arrives
LoadHistoryResponds(k, body) ==
    /\ k \in 1..loadsPending
    /\ loadsPending' = loadsPending - 1
    /\ latestLoad' = LatestAfter(k, Answered(HistoryOf(body)))
    /\ history' = HistoryOf(body)
    /\ Quiet
    /\ UNCHANGED <<tab, code, language, results, loading, runs,
                   remembered, response, ret, retV5, panel>>

\* App.jsx 58..60: the k-th pending GET /history/latest fails
LoadHistoryFails(k) ==
    /\ k \in 1..loadsPending
    /\ loadsPending' = loadsPending - 1
    /\ latestLoad' = LatestAfter(k, Failed)
    /\ warnsLogged' = <<"History load failed">>
    /\ alerts' = 0
    /\ errorsLogged' = <<>>
    /\ sent' = 0
    /\ UNCHANGED <<tab, code, language, results, history, loading, runs,
                   remembered, response, ret, retV5, panel>>

\* App.jsx 171: disabled={loading}
NeverDisabled == FALSE

ReviewDisabled == loading

\* App.jsx 97..99 and api.js 7: the click on Review Code, up to the await
StartReview ==
    /\ ~ReviewDisabled
    /\ Len(runs) < MaxRuns
    /\ loading' = TRUE
    /\ runs' = Append(runs, [pc |-> "analyze", code |-> code, language |-> language,
                             analyzePosts |-> 1, savePosts |-> 0,
                             payload |-> Undefined])
    /\ sent' = 1
    /\ alerts' = 0
    /\ errorsLogged' = <<>>
    /\ warnsLogged' = <<>>
    /\ UNCHANGED <<tab, code, language, results, history, loadsPending,
                   latestLoad, remembered, response, ret, retV5, panel>>

\* the runs without the i-th
Without(i) == [k \in 1..(Len(runs) - 1) |-> IF k < i THEN runs[k] ELSE runs[k + 1]]

\* App.jsx 117, after the catch block
LoadingStuck == TRUE

LoadingAfterCatch == FALSE

\* App.jsx 113..117: the catch block and what follows it
Catch(i, e) ==
    /\ errorsLogged' = <<e>>
    /\ alerts' = 1
    /\ loading' = LoadingAfterCatch
    /\ runs' = Without(i)
    /\ warnsLogged' = <<>>
    /\ sent' = 0
    /\ UNCHANGED <<tab, code, language, results, history, loadsPending,
                   latestLoad>>

\* what onReview does with a run whose POST /analyze failed, other than
\* ending it in the catch block (App.jsx 113..117): nothing
RetryOnce(r) ==
    IF r.analyzePosts < 2
    THEN Val([r EXCEPT !.analyzePosts = r.analyzePosts + 1]) ELSE Undefined

AfterAnalyzeFailure(r) == Undefined

\* api.js 7: the POST /analyze of run i fails, and analyzeAll rejects
AnalyzeFails(i) ==
    /\ runs[i].pc = "analyze"
    /\ LET again == AfterAnalyzeFailure(runs[i])
       IN  IF again = Undefined
           THEN Catch(i, "Network Error")
           ELSE /\ runs' = [runs EXCEPT ![i] = again[1]]
                /\ sent' = 1
                /\ alerts' = 0
                /\ errorsLogged' = <<>>
                /\ warnsLogged' = <<>>
                /\ UNCHANGED <<tab, code, language, results, history, loading,
                               loadsPending, latestLoad>>
    /\ UNCHANGED <<remembered, response, ret, retV5, panel>>

\* one of the earlier calls is kept, with the outcome of the latest later
\* call that got the same response
Remember(body, out) ==
    \/ remembered' = Val([response |-> body, ret |-> out, later |-> Undefined])
    \/ /\ remembered # Undefined
       /\ remembered' =
             IF remembered[1].response = body
             THEN Val([remembered[1] EXCEPT !.later = Val(out)])
             ELSE remembered

\* the code in the editor when the response arrives
CurrentCode(r) == code

\* App.jsx 106: code, as the activation of onReview holds it
SavedCode(r) == r.code

\* api.js 12..125 and App.jsx 101..110: the response to POST /analyze of run i
\* arrives; analyzeAll reshapes it, and onReview stores the result and posts
\* the run to the history service
AnalyzeResponds(i, body) ==
    /\ runs[i].pc = "analyze"
    /\ LET out == analyzeAll(body)
       IN  /\ Remember(body, out)
           /\ IF out.threw
              THEN Catch(i, "TypeError")
              ELSE /\ results' = out.val
                   /\ runs' = [runs EXCEPT ![i] =
                          [@ EXCEPT !.pc = "save", !.savePosts = @ + 1,
                                    !.payload =
                                        Val([language |-> runs[i].language,
                                             codeSnippet |-> Slice(SavedCode(runs[i])),
                                             summary |-> out.val[1].summary,
                                             issues |-> out.val[1].issues])]]
                   /\ sent' = 1
                   /\ alerts' = 0
                   /\ errorsLogged' = <<>>
                   /\ warnsLogged' = <<>>
                   /\ UNCHANGED <<tab, code, language, history, loading,
                                  loadsPending, latestLoad>>
    /\ UNCHANGED <<response, ret, retV5, panel>>

\* saveHistory, were it to let the failure through to onReview
SaveFailureEscapes == FALSE

\* App.jsx 88..92: saveHistory catches the failure of its request
SaveFailureCaught == TRUE

\* loading, were setLoading(false) called in the catch block only
LoadingLeftOn == TRUE

\* App.jsx 117, after setTab(1)
LoadingAfterSave == FALSE

\* App.jsx 88..92 and 112..117: POST /history/save of run i succeeds or fails
SaveResponds(i, ok) ==
    /\ runs[i].pc = "save"
    /\ IF ok \/ SaveFailureCaught
       THEN /\ warnsLogged' = IF ok THEN <<>> ELSE <<"History save failed:">>
            /\ tab' = 1
            /\ alerts' = 0
            /\ errorsLogged' = <<>>
       ELSE /\ warnsLogged' = <<>>
            /\ tab' = tab
            /\ alerts' = 1
            /\ errorsLogged' = <<"Network Error">>
    /\ loading' = LoadingAfterSave
    /\ runs' = Without(i)
    /\ sent' = 0
    /\ UNCHANGED <<code, language, results, history, loadsPending,
                   latestLoad, remembered, response, ret, retV5, panel>>

Next ==
    \/ \E l \in Langs : PickLang(l)
    \/ \E text \in Codes : EditCode(text)
    \/ \E text \in Codes, filename \in Filenames : onUpload(text, filename)
    \/ \E v \in 0..2 : SetTab(v)
    \/ \E k \in 1..loadsPending, body \in HistoryBodies : LoadHistoryResponds(k, body)
    \/ \E k \in 1..loadsPending : LoadHistoryFails(k)
    \/ StartReview
    \/ \E i \in 1..Len(runs) : AnalyzeFails(i)
    \/ \E i \in 1..Len(runs), body \in SampleResponses : AnalyzeResponds(i, body)
    \/ \E i \in 1..Len(runs), ok \in BOOLEAN : SaveResponds(i, ok)

Spec == Init /\ [][Next]_vars

\* a response to POST /analyze arrives, or the request fails
AnalyzeCompletes ==
    \E i \in 1..Len(runs) :
        AnalyzeFails(i) \/ \E body \in SampleResponses : AnalyzeResponds(i, body)

\* a response to POST /history/save arrives, or the request fails
SaveCompletes == \E i \in 1..Len(runs), ok \in BOOLEAN : SaveResponds(i, ok)

\* the sessions in which every request of a review completes
FairSpec ==
    /\ Spec
    /\ WF_vars(AnalyzeCompletes)
    /\ WF_vars(SaveCompletes)

(***************************************************************************)
(* analyzeAll alone, on every response of the bounded set                  *)
(***************************************************************************)
\* every way for a service sub-result, or a part of it, to be absent
ShapeResponse(r) ==
    \/ r = Val([results |-> Undefined])
    \/ \E sy \in SyntaxShapes, st \in StyleShapes, se \in SecurityShapes,
          qu \in QualityShapes, ru \in RuleShapes :
          r = MkResponse([syntax |-> sy, style |-> st, security |-> se,
                          quality |-> qu, rule |-> ru])

\* every choice of the optional fields of at most MaxItems items
ContentResponse(r) ==
    \E n \in LenVectors :
      \E se \in [1..n[1] -> SyntaxErrs], lo \in [1..n[2] -> LocalItems],
         ai \in [1..n[3] -> AiStyleItems], ba \in [1..n[4] -> BanditItems],
         sa \in [1..n[5] -> SecAiItems], ru \in [1..n[6] -> RuleItems],
         qa \in {Undefined} \cup {Val(a) : a \in Analyses} :
         r = MkResponse(MkData(se, lo, ai, ba, sa, qa, ru))

\* up to MaxBulk items from one service
BulkResponse(r) ==
    \E n \in 0..MaxBulk : \E d \in BulkData(n) : r = MkResponse(d)

\* responses of the style service v5, whose sub-result has a summary
SummaryResponse(r) ==
    \E q \in {Undefined, Val(0), Val(80)}, lo \in [1..1 -> LocalItems] :
        r = MkResponse([EmptyData EXCEPT !.style =
                Val([local_issues |-> ListOf(lo), ai_review |-> Undefined,
                     summary |-> Val([qualityScore |-> q,
                                      qualityScoreLocal |-> Val(70),
                                      qualityScoreAI |-> Undefined])])])

InitAnalyze ==
    /\ UIInit
    /\ \/ ShapeResponse(response)
       \/ ContentResponse(response)
       \/ BulkResponse(response)
       \/ SummaryResponse(response)
       \/ response \in MalformedResponses
    /\ ret = NotCalled
    /\ retV5 = NotCalled
    /\ panel = NotShown

Analyze ==
    /\ ret = NotCalled
    /\ ret' = analyzeAll(response)
    /\ UNCHANGED <<response, retV5, panel, uiVars>>

\* the other version of analyzeAll is applied to the same response
AnalyzeV5 ==
    /\ retV5 = NotCalled
    /\ retV5' = analyzeAllV5(response)
    /\ UNCHANGED <<response, ret, panel, uiVars>>

SpecAnalyze == InitAnalyze /\ [][Analyze \/ AnalyzeV5]_vars

(***************************************************************************)
(* IssuesPanel (components/IssuesPanel.jsx): the issues kept and the       *)
(* low-value issues.  Here a string is the sequence of its characters.     *)
(***************************************************************************)
LowerLetters ==
    <<"a", "b", "c", "d", "e", "f", "g", "h", "i", "j", "k", "l", "m",
      "n", "o", "p", "q", "r", "s", "t", "u", "v", "w", "x", "y", "z">>

UpperLetters ==
    <<"A", "B", "C", "D", "E", "F", "G", "H", "I", "J", "K", "L", "M",
      "N", "O", "P", "Q", "R", "S", "T", "U", "V", "W", "X", "Y", "Z">>

\* the place of a letter in an alphabet, 0 when it is not in it
PlaceIn(alphabet, c) ==
    IF \E j \in 1..Len(alphabet) : alphabet[j] = c
    THEN CHOOSE j \in 1..Len(alphabet) : alphabet[j] = c
    ELSE 0

\* str.toUpperCase()
toUpperCase(str) ==
    [i \in 1..Len(str) |->
        IF PlaceIn(LowerLetters, str[i]) > 0
        THEN UpperLetters[PlaceIn(LowerLetters, str[i])] ELSE str[i]]

\* the string as it is written
AsWritten(str) == str

\* str.toLowerCase()
toLowerCase(str) ==
    [i \in 1..Len(str) |->
        IF PlaceIn(UpperLetters, str[i]) > 0
        THEN LowerLetters[PlaceIn(UpperLetters, str[i])] ELSE str[i]]

\* msg.includes(k)
includes(msg, k) ==
    \E from \in 1..(Len(msg) - Len(k) + 1) : SubSeq(msg, from, from + Len(k) - 1) = k

\* IssuesPanel.jsx 45..62
LOW_VALUE_CODES ==
    {<<"C", "0", "1", "1", "4">>,
     <<"C", "0", "1", "1", "5">>,
     <<"C", "0", "1", "1", "6">>,
     <<"C", "0", "3", "0", "4">>,
     <<"C", "0", "3", "0", "3">>,
     <<"W", "2", "9", "1">>,
     <<"W", "2", "9", "2">>,
     <<"W", "2", "9", "3">>,
     <<"E", "5", "0", "1">>,
     <<"E", "2", "0", "3">>,
     <<"E", "2", "3", "1">>,
     <<"E", "3", "0", "2">>,
     <<"W", "5", "0", "3">>}

\* IssuesPanel.jsx 64..73
LOW_VALUE_KEYWORDS ==
    <<<<"m", "i", "s", "s", "i", "n", "g", " ", "m", "o", "d", "u", "l", "e", " ", "d", "o", "c", "s", "t", "r", "i", "n", "g">>,
      <<"n", "o", " ", "n", "e", "w", "l", "i", "n", "e", " ", "a", "t", " ", "e", "n", "d", " ", "o", "f", " ", "f", "i", "l", "e">>,
      <<"t", "r", "a", "i", "l", "i", "n", "g", " ", "w", "h", "i", "t", "e", "s", "p", "a", "c", "e">>,
      <<"l", "i", "n", "e", " ", "t", "o", "o", " ", "l", "o", "n", "g">>,
      <<"b", "l", "a", "n", "k", " ", "l", "i", "n", "e">>,
      <<"w", "h", "i", "t", "e", "s", "p", "a", "c", "e">>,
      <<"e", "x", "p", "e", "c", "t", "e", "d", " ", "2", " ", "b", "l", "a", "n", "k", " ", "l", "i", "n", "e", "s">>,
      <<"w", "h", "i", "t", "e", "s", "p", "a", "c", "e", " ", "b", "e", "f", "o", "r", "e">>>>

\* x || "" for a string x that may be absent
OrEmpty(x) == IF x = Undefined THEN <<>> ELSE x[1]

\* IssuesPanel.jsx 75..81
isLowValue(issue) ==
    IF issue = Undefined THEN FALSE
    ELSE LET c == toUpperCase(OrEmpty(issue[1].code))
         IN  IF c # <<>> /\ c \in LOW_VALUE_CODES THEN TRUE
             ELSE LET msg == toLowerCase(OrEmpty(issue[1].message))
                  IN  \E j \in 1..Len(LOW_VALUE_KEYWORDS) :
                          includes(msg, LOW_VALUE_KEYWORDS[j])

\* IssuesPanel.jsx 274..285: kept and minor after the forEach has run over
\* the first n issues
RECURSIVE Partitioned(_, _)
Partitioned(issues, n) ==
    IF n = 0 THEN [keptIssues |-> <<>>, minorIssues |-> <<>>]
    ELSE LET before == Partitioned(issues, n - 1)
         IN  IF isLowValue(issues[n])
             THEN [before EXCEPT !.minorIssues = Append(@, issues[n])]
             ELSE [before EXCEPT !.keptIssues = Append(@, issues[n])]

\* the codes and the messages of the issues given to the panel
CodesIn == {Undefined, Val(<<"e", "5", "0", "1">>), Val(<<"W", "2", "9">>)}

MessagesIn ==
    {Undefined,
     Val(<<"L", "i", "n", "e", " ", "T", "o", "o", " ", "L", "o", "n", "g", " ", "(", "8", "8", ")">>),
     Val(<<"U", "n", "u", "s", "e", "d", " ", "i", "m", "p", "o", "r", "t">>),
     Val(<<"T", "r", "a", "i", "l", "i", "n", "g", " ", "W", "h", "i", "t", "e", "s", "p", "a", "c", "e">>),
     Val(<<"b", "l", "a", "n", "k">>)}

\* an issue of results.issues, or a null in its place
IssuesIn ==
    {Undefined} \cup {Val([code |-> c, message |-> m]) : c \in CodesIn, m \in MessagesIn}

InitPanel ==
    /\ UIInit
    /\ response = Undefined
    /\ ret = NotCalled
    /\ retV5 = NotCalled
    /\ \E n \in 0..MaxShown : \E l \in [1..n -> IssuesIn] :
          panel = [issues |-> l, out |-> Undefined]

\* IssuesPanel.jsx 274..285: the panel is rendered with results
Render ==
    /\ panel.out = Undefined
    /\ panel' = [panel EXCEPT !.out = Val(Partitioned(panel.issues, Len(panel.issues)))]
    /\ UNCHANGED <<response, ret, retV5, uiVars>>

SpecPanel == InitPanel /\ [][Render]_vars

(***************************************************************************)
(* The figures the panels derive from the summary                          *)
(***************************************************************************)
\* InsightsPanel.jsx 210: the value of the "Total Issues" card
InsightsTotalIssues(summary) ==
    summary.critical + summary.high + summary.medium + summary.low

\* IssuesPanel.jsx 324..325 and InsightsPanel.jsx 116..118: the scores shown
\* as "<score>/100" and charted on the axis 0..100
ShownScores(summary) == <<summary.qualityScore, summary.securityScore>>

(***************************************************************************)
(* Properties of analyzeAll                                                *)
(***************************************************************************)
\* analyzeAll has returned
HasReturned == ret # NotCalled /\ ~ret.threw

\* the items of a list that may be absent
ItemsOf(l) == IF l = Undefined THEN <<>> ELSE l[1]

\* the lists of a well-formed response body, absent parts read as empty
GivenData == IF response[1].results = Undefined THEN EmptyData ELSE response[1].results[1]

GivenSyntax ==
    IF GivenData.syntax = Undefined THEN <<>> ELSE ItemsOf(GivenData.syntax[1].errors)

GivenLocal ==
    IF GivenData.style = Undefined THEN <<>>
    ELSE ItemsOf(GivenData.style[1].local_issues)

GivenAiStyle ==
    IF GivenData.style = Undefined \/ GivenData.style[1].ai_review = Undefined
    THEN <<>> ELSE ItemsOf(GivenData.style[1].ai_review[1].issues)

GivenBandit ==
    IF \/ GivenData.security = Undefined
       \/ GivenData.security[1].security_issues = Undefined
       \/ GivenData.security[1].security_issues[1].bandit = Undefined
    THEN <<>>
    ELSE ItemsOf(GivenData.security[1].security_issues[1].bandit[1].results)

GivenSecAi ==
    IF GivenData.security = Undefined \/ GivenData.security[1].ai = Undefined
    THEN <<>> ELSE ItemsOf(GivenData.security[1].ai[1].issues)

GivenQuality ==
    IF GivenData.quality = Undefined \/ GivenData.quality[1].analysis = Undefined
    THEN <<>> ELSE <<GivenData.quality[1].analysis>>

GivenRule ==
    IF GivenData.rule = Undefined THEN <<>> ELSE ItemsOf(GivenData.rule[1].issues)

\* for each item the backend gave, in the order of the services: the group it
\* is in, and the line and the severity the backend gave for it (Undefined
\* where it gave none or the service has no such field)
Given ==
    [i \in 1..Len(GivenSyntax) |->
        [group |-> "syntax", line |-> GivenSyntax[i][1].line, severity |-> Undefined]]
    \o [i \in 1..Len(GivenLocal) |->
        [group |-> "local", line |-> GivenLocal[i][1].line,
         severity |-> GivenLocal[i][1].severity]]
    \o [i \in 1..Len(GivenAiStyle) |->
        [group |-> "aistyle", line |-> GivenAiStyle[i][1].line, severity |-> Undefined]]
    \o [i \in 1..Len(GivenBandit) |->
        [group |-> "bandit", line |-> GivenBandit[i][1].line_number,
         severity |-> Undefined]]
    \o [i \in 1..Len(GivenSecAi) |->
        [group |-> "secai", line |-> GivenSecAi[i][1].line,
         severity |-> GivenSecAi[i][1].severity]]
    \o [i \in 1..Len(GivenQuality) |->
        [group |-> "quality", line |-> Undefined, severity |-> Undefined]]
    \o [i \in 1..Len(GivenRule) |->
        [group |-> "rule", line |-> GivenRule[i][1].line,
         severity |-> GivenRule[i][1].severity]]

\* C1: on a well-formed response (results absent, or each sub-result absent
\* or with lists that are absent, empty or lists of records) analyzeAll does
\* not throw and returns an object with exactly issues, summary and raw.
C1_TotalOnWellFormed ==
    (ret # NotCalled /\ WellFormed(response)) =>
        /\ ~ret.threw
        /\ ret.val # Undefined
        /\ DOMAIN ret.val[1] = {"issues", "summary", "raw"}

\* analyzeAll returned for a response with no syntax and no security
\* sub-result, an empty style sub-result and a rule sub-result with an item
C1_Witness ==
    /\ HasReturned
    /\ response[1].results # Undefined
    /\ GivenData.syntax = Undefined
    /\ GivenData.security = Undefined
    /\ GivenData.style = Val([local_issues |-> Undefined, ai_review |-> Undefined])
    /\ Len(GivenRule) = 1

\* an empty or absent string
Empty(x) == x = Undefined \/ x = Val("")

\* C3: every returned issue has a non-empty severity (low for a local style
\* or rule item without one, medium for an AI security item without one), a
\* type among syntax, style, security, quality and rule, a line (0 when the
\* backend gave none) and a non-empty suggestion.
C3_IssueFieldsDefined ==
    HasReturned =>
        LET given == Given
        IN  \A i \in 1..Len(ret.val[1].issues) :
              LET issue == ret.val[1].issues[i]
              IN  /\ ~Empty(issue.severity)
                  /\ issue.type \in {Val("syntax"), Val("style"), Val("security"),
                                     Val("quality"), Val("rule")}
                  /\ issue.line # Undefined
                  /\ ~Empty(issue.suggestion)
                  /\ i <= Len(given) =>
                        /\ given[i].line = Undefined => issue.line = Val(0)
                        /\ (given[i].group \in {"local", "rule"} /\ Empty(given[i].severity))
                              => issue.severity = Val("low")
                        /\ (given[i].group = "secai" /\ Empty(given[i].severity))
                              => issue.severity = Val("medium")

\* analyzeAll returned a rule issue and an AI security issue for items that
\* came without severity, line and suggestion
C3_Witness ==
    /\ HasReturned
    /\ Len(ret.val[1].issues) = 2
    /\ Len(Given) = 2
    /\ Given[1] = [group |-> "secai", line |-> Undefined, severity |-> Undefined]
    /\ Given[2] = [group |-> "rule", line |-> Undefined, severity |-> Val("")]
    /\ GivenRule[1][1].suggestion = Undefined

\* the number of issues with this severity
Having(issues, sev) ==
    Cardinality({i \in DOMAIN issues : issues[i].severity = Val(sev)})

\* C4: totalIssues is the length of the returned issue list, and critical,
\* high, medium and low are the numbers of returned issues with exactly that
\* severity.
C4_SummaryCounts ==
    HasReturned =>
        LET issues == ret.val[1].issues
            summary == ret.val[1].summary
        IN  /\ summary.totalIssues = Len(issues)
            /\ summary.critical = Having(issues, "critical")
            /\ summary.high = Having(issues, "high")
            /\ summary.medium = Having(issues, "medium")
            /\ summary.low = Having(issues, "low")

\* analyzeAll returned one low issue and one issue of severity "style"
C4_Witness ==
    /\ HasReturned
    /\ ret.val[1].summary.totalIssues = 2
    /\ ret.val[1].summary.low = 1
    /\ \E i \in 1..2 : ret.val[1].issues[i].severity = Val("style")

\* C8: the Quality Score and the Security Score of the summary, as the
\* panels show them, are between 0 and 100.
C8_ScoresInRange ==
    HasReturned =>
        \A k \in 1..2 :
            /\ ShownScores(ret.val[1].summary)[k] >= 0
            /\ ShownScores(ret.val[1].summary)[k] <= 100

\* C9: the "Total Issues" figure of the Insights tab equals the number of
\* issues analyzeAll returned.
C9_TotalIssuesFigure ==
    HasReturned =>
        InsightsTotalIssues(ret.val[1].summary) = ret.val[1].summary.totalIssues

\* for each item the backend gave, in the order of the services: the type
\* of the service and the message of the item (none for the quality
\* analysis, which has no message of its own)
GivenText ==
    [i \in 1..Len(GivenSyntax) |->
        [type |-> "syntax", message |-> GivenSyntax[i][1].message]]
    \o [i \in 1..Len(GivenLocal) |->
        [type |-> "style", message |-> GivenLocal[i][1].message]]
    \o [i \in 1..Len(GivenAiStyle) |->
        [type |-> "style", message |-> GivenAiStyle[i][1].message]]
    \o [i \in 1..Len(GivenBandit) |->
        [type |-> "security", message |-> GivenBandit[i][1].issue_text]]
    \o [i \in 1..Len(GivenSecAi) |->
        [type |-> "security", message |-> GivenSecAi[i][1].message]]
    \o [i \in 1..Len(GivenQuality) |->
        [type |-> "quality", message |-> Undefined]]
    \o [i \in 1..Len(GivenRule) |->
        [type |-> "rule", message |-> GivenRule[i][1].message]]

\* C11: the returned issues are, one for each item the backend gave, in the
\* order syntax errors, local style issues, AI style issues, Bandit
\* results, AI security issues, the quality analysis (one issue exactly when
\* it is there), rule issues, each group in the backend's order: the i-th
\* issue has the type and the message of the i-th item and, where the
\* backend gave a line, its line.
C11_ServiceOrder ==
    HasReturned =>
        LET issues == ret.val[1].issues
            given == Given
            text == GivenText
        IN  /\ Len(issues) = Len(given)
            /\ \A i \in 1..Len(issues) :
                  /\ issues[i].type = Val(text[i].type)
                  /\ text[i].type # "quality" =>
                        issues[i].message = text[i].message
                  /\ given[i].line # Undefined => issues[i].line = given[i].line
            /\ Cardinality({i \in 1..Len(issues) : issues[i].type = Val("quality")})
                  = Len(GivenQuality)

\* analyzeAll returned for a quality analysis and two Bandit results, of
\* which the first has a line and the second has none
C11_Witness ==
    /\ HasReturned
    /\ Len(GivenBandit) = 2
    /\ GivenBandit[1][1].line_number = Val(7)
    /\ GivenBandit[2][1].line_number = Undefined
    /\ Len(GivenQuality) = 1
    /\ Len(ret.val[1].issues) = 3
    /\ ret.val[1].issues[1].line = Val(7)
    /\ ret.val[1].issues[2].line = Val(0)
    /\ ret.val[1].issues[3].type = Val("quality")

\* the number of issues of this type
OfType(issues, type) ==
    Cardinality({i \in DOMAIN issues : issues[i].type = Val(type)})

\* C12: securityScore is 100 minus 10 times the number of returned issues of
\* type security, and qualityScore is 100 minus 5 times the number of
\* returned issues.
C12_ScoreFormulas ==
    HasReturned =>
        LET issues == ret.val[1].issues
            summary == ret.val[1].summary
        IN  /\ summary.securityScore = 100 - 10 * OfType(issues, "security")
            /\ summary.qualityScore = 100 - 5 * Len(issues)

\* analyzeAll returned so many security issues that both differences are
\* negative
C12_Witness ==
    /\ HasReturned
    /\ OfType(ret.val[1].issues, "security") = MaxBulk
    /\ ret.val[1].summary.securityScore < 0
    /\ ret.val[1].summary.qualityScore < 0

\* C19: on every well-formed response the two versions of analyzeAll both
\* return, with issue lists of the same length whose i-th issues have the
\* same type and the same message, and with summaries that have the same
\* totalIssues and the same securityScore.
C19_VersionsAgree ==
    (ret # NotCalled /\ retV5 # NotCalled /\ WellFormed(response)) =>
        /\ ~ret.threw
        /\ ~retV5.threw
        /\ LET a == ret.val[1]
               b == retV5.val[1]
           IN  /\ Len(a.issues) = Len(b.issues)
               /\ \A i \in 1..Len(a.issues) :
                     /\ a.issues[i].type = b.issues[i].type
                     /\ a.issues[i].message = b.issues[i].message
               /\ a.summary.totalIssues = b.summary.totalIssues
               /\ a.summary.securityScore = b.summary.securityScore

\* both versions returned for an AI security issue and a rule item without
\* severity and line, on which they differ in the severity and the line
C19_Witness ==
    /\ HasReturned
    /\ retV5 # NotCalled
    /\ ~retV5.threw
    /\ Len(ret.val[1].issues) = 2
    /\ ret.val[1].issues[1].type = Val("security")
    /\ ret.val[1].issues[2].type = Val("rule")
    /\ ret.val[1].issues[2].severity = Val("low")
    /\ retV5.val[1].issues[2].severity = Undefined
    /\ ret.val[1].issues[1].line = Val(0)
    /\ retV5.val[1].issues[1].line = Undefined
    /\ ret.val[1].summary.low # retV5.val[1].summary.low

(***************************************************************************)
(* Properties of IssuesPanel                                               *)
(***************************************************************************)
\* two characters are the same letter, whatever their case
SameLetter(x, y) ==
    \/ x = y
    \/ \E j \in 1..Len(LowerLetters) : {x, y} = {LowerLetters[j], UpperLetters[j]}

\* two strings are the same, whatever the case of their letters
SameIgnoringCase(a, b) ==
    /\ Len(a) = Len(b)
    /\ \A i \in 1..Len(a) : SameLetter(a[i], b[i])

\* the issue has a code of LOW_VALUE_CODES, or its message contains an entry
\* of LOW_VALUE_KEYWORDS, whatever the case of the letters
LowValueAsStated(issue) ==
    /\ issue # Undefined
    /\ \/ /\ issue[1].code # Undefined
          /\ \E c \in LOW_VALUE_CODES : SameIgnoringCase(issue[1].code[1], c)
       \/ /\ issue[1].message # Undefined
          /\ \E j \in 1..Len(LOW_VALUE_KEYWORDS) :
                LET k == LOW_VALUE_KEYWORDS[j]
                    msg == issue[1].message[1]
                IN  \E from \in 1..(Len(msg) - Len(k) + 1) :
                        SameIgnoringCase(SubSeq(msg, from, from + Len(k) - 1), k)

NotLowValueAsStated(issue) == ~LowValueAsStated(issue)

\* C18: minorIssues is the list of the given issues that are of low value
\* (a code of LOW_VALUE_CODES or a keyword of LOW_VALUE_KEYWORDS in the
\* message, letters compared whatever their case) and keptIssues the list of
\* the others, both in the order given: each issue is in exactly one.
C18_IssuesPartition ==
    panel.out # Undefined =>
        /\ panel.out[1].minorIssues = SelectSeq(panel.issues, LowValueAsStated)
        /\ panel.out[1].keptIssues = SelectSeq(panel.issues, NotLowValueAsStated)
        /\ Len(panel.out[1].minorIssues) + Len(panel.out[1].keptIssues)
              = Len(panel.issues)

\* the panel was rendered with an issue whose message has a keyword in
\* capitals, which went to minorIssues, and then a null, which was kept
C18_Witness ==
    /\ panel.out # Undefined
    /\ Len(panel.issues) = 2
    /\ panel.issues[1] # Undefined
    /\ panel.issues[1][1].code = Undefined
    /\ panel.issues[1][1].message = Val(<<"T", "r", "a", "i", "l", "i", "n", "g", " ", "W", "h", "i", "t", "e", "s", "p", "a", "c", "e">>)
    /\ panel.issues[2] = Undefined
    /\ panel.out[1].minorIssues = <<panel.issues[1]>>
    /\ panel.out[1].keptIssues = <<Undefined>>

C5_AnalyzeFailure ==
    [][\A i \in 1..Len(runs) :
          AnalyzeFails(i) =>
              /\ alerts' = 1
              /\ errorsLogged' = <<"Network Error">>
              /\ results' = results
              /\ tab' = tab
              /\ history' = history
              /\ sent' = 0
              /\ runs' = <<>>
              /\ loading' = FALSE]_vars

\* a POST /analyze has just failed, after an earlier review had succeeded
\* and while the user was on the Insights tab
C5_Witness ==
    /\ errorsLogged = <<"Network Error">>
    /\ alerts = 1
    /\ results # Undefined
    /\ tab = 2
    /\ history # <<>>
    /\ ~loading

\* the step is a click, a key stroke or an upload of the user
UserAction ==
    \/ \E l \in Langs : PickLang(l)
    \/ \E text \in Codes : EditCode(text)
    \/ \E text \in Codes, filename \in Filenames : onUpload(text, filename)
    \/ \E v \in 0..2 : SetTab(v)
    \/ StartReview

\* the step is the arrival of a response that analyzeAll reshaped
AnalysisSucceeded ==
    \E i \in 1..Len(runs), body \in SampleResponses :
        AnalyzeResponds(i, body) /\ ~analyzeAll(body).threw

\* C6: every run of onReview has issued one POST /analyze and at most one
\* POST /history/save (none before the analysis answered); a handler issues
\* at most one request, and only a user action or the arrival of a
\* successful analysis issues one: nothing is sent again after a failure.
C6_OneShotRequests ==
    /\ [](\A k \in 1..Len(runs) :
            /\ runs[k].analyzePosts = 1
            /\ runs[k].savePosts = IF runs[k].pc = "save" THEN 1 ELSE 0)
    /\ [][sent' <= 1]_vars
    /\ [][sent' > 0 => (UserAction \/ AnalysisSucceeded)]_vars
    /\ [][(\E i \in 1..Len(runs) : AnalyzeFails(i) \/ SaveResponds(i, FALSE))
             => (sent' = 0 /\ Len(runs') < Len(runs))]_vars
    /\ [][(\E k \in 1..loadsPending : LoadHistoryFails(k)) => sent' = 0]_vars

\* the POST /history/save of a run has just failed: the run is over and
\* nothing was sent
C6_Witness ==
    /\ warnsLogged = <<"History save failed:">>
    /\ sent = 0
    /\ runs = <<>>

\* C7: at most one review is in flight; while one is, loading is true and
\* the Review Code button is disabled, so that no other can be started.
C7_OneReviewInFlight ==
    /\ Len(runs) <= 1
    /\ Len(runs) = 1 => (loading /\ ReviewDisabled /\ ~ENABLED StartReview)

\* a review is waiting for the history service
C7_Witness ==
    /\ Len(runs) = 1
    /\ runs[1].pc = "save"
    /\ loading

\* C13: every run of onReview sets loading back to false in the end, however
\* its requests complete, provided each of them completes; loading is not
\* true when no run of onReview is under way.
C13_LoadingEndsFalse ==
    /\ [](Len(runs) = 0 => ~loading)
    /\ (loading ~> ~loading)

\* a run has just ended in the catch block, on a response that analyzeAll
\* could not reshape, and loading is false again
C13_Witness ==
    /\ errorsLogged = <<"TypeError">>
    /\ alerts = 1
    /\ runs = <<>>
    /\ ~loading

\* C14: when POST /history/save fails after a successful analysis, results
\* stay set to the result of that analysis, the tab becomes Results (1), no
\* alert is raised and loading becomes false.
C14_SaveFailureKeepsResult ==
    [][\A i \in 1..Len(runs) :
          SaveResponds(i, FALSE) =>
              /\ results' = results
              /\ results' # Undefined
              /\ results'[1].issues = runs[i].payload[1].issues
              /\ results'[1].summary = runs[i].payload[1].summary
              /\ tab' = 1
              /\ alerts' = 0
              /\ loading' = FALSE]_vars

\* a POST /history/save has just failed for a review started on the
\* Insights tab: its result with two issues is shown on the Results tab
C14_Witness ==
    /\ warnsLogged = <<"History save failed:">>
    /\ tab = 1
    /\ latestLoad = Pending
    /\ results # Undefined
    /\ Len(results[1].issues) = 2
    /\ loadsPending = 1
    /\ alerts = 0
    /\ ~loading

\* the number of characters of a text
RECURSIVE TextLen(_)
TextLen(text) == IF text = <<>> THEN 0 ELSE Head(text).n + TextLen(Tail(text))

\* text a is the beginning of text b
RECURSIVE StartsWith(_, _)
StartsWith(b, a) ==
    \/ a = <<>>
    \/ /\ b # <<>>
       /\ Head(a).ch = Head(b).ch
       /\ \/ Head(a).n = Head(b).n /\ StartsWith(Tail(b), Tail(a))
          \/ Head(a).n < Head(b).n /\ Tail(a) = <<>>

\* C15: the history record posted for a review holds the language and the
\* first 5000 characters of the code that the review's POST /analyze was
\* sent with, and the summary and the issues of the review's result, whatever
\* the editor and the language picker hold by then.
C15_HistoryRecord ==
    \A i \in 1..Len(runs) :
        runs[i].pc = "save" =>
            LET record == runs[i].payload[1]
                limit == IF TextLen(runs[i].code) < 5000
                         THEN TextLen(runs[i].code) ELSE 5000
            IN  /\ record.language = runs[i].language
                /\ StartsWith(runs[i].code, record.codeSnippet)
                /\ TextLen(record.codeSnippet) = limit
                /\ results # Undefined
                /\ record.summary = results[1].summary
                /\ record.issues = results[1].issues

\* a history record was posted for a review of a text longer than 5000
\* characters, after the user had uploaded another text in another language
C15_Witness ==
    /\ Len(runs) = 1
    /\ runs[1].pc = "save"
    /\ TextLen(runs[1].code) > 5000
    /\ TextLen(runs[1].payload[1].codeSnippet) = 5000
    /\ code # runs[1].code
    /\ language # runs[1].language

\* the history list of a response body, the empty list when it has none
ListIn(body) ==
    IF body = Undefined \/ body[1].history = Undefined THEN <<>>
    ELSE body[1].history[1]

\* C16: a step that changes the tab issues one GET /history/latest when the
\* new tab is Insights (2) and no request otherwise; when a response to
\* GET /history/latest arrives, history becomes its history list (the empty
\* list when it has none); when the request fails, history stays as it was
\* and no alert is raised.
C16_HistoryAutoLoad ==
    /\ [][tab' # tab =>
            /\ sent' = IF tab' = 2 THEN 1 ELSE 0
            /\ loadsPending' = loadsPending + sent']_vars
    /\ [][\A k \in 1..loadsPending, body \in HistoryBodies :
            LoadHistoryResponds(k, body) =>
                (history' = ListIn(body) /\ alerts' = 0)]_vars
    /\ [][\A k \in 1..loadsPending :
            LoadHistoryFails(k) => (history' = history /\ alerts' = 0)]_vars

\* on the Insights tab, the one GET /history/latest was answered with a
\* history list of one run, which is now the history
C16_Witness ==
    /\ tab = 2
    /\ loadsPending = 0
    /\ history = <<"run1">>
    /\ results = Undefined
    /\ shown = <<0, <<>>, <<>>, 0>>

\* C17: when the last of several overlapping GET /history/latest ends and
\* the one issued last was answered, history is the history list of the
\* response to the one issued last, in whatever order the responses came.
C17_LastIssuedWins ==
    /\ [][\A k \in 1..loadsPending, body \in HistoryBodies :
            (/\ LoadHistoryResponds(k, body)
             /\ loadsPending = 1
             /\ IsLatest(k) \/ latestLoad.state = "answered")
                => history' = IF IsLatest(k) THEN ListIn(body) ELSE latestLoad.history]_vars
    /\ [][\A k \in 1..loadsPending :
            (/\ LoadHistoryFails(k)
             /\ loadsPending = 1
             /\ latestLoad.state = "answered")
                => history' = latestLoad.history]_vars

\* C10: the language changes only when the user picks one in the sidebar.
C10_LanguageKept ==
    [][language' # language => \E l \in Langs : PickLang(l)]_vars

====
